---------------------------- MODULE Spec2Model ----------------------------
(***************************************************************************)
(* The MQTT -> Exist.io bridge of CodeByJF/MQTT2Exist.  The repository     *)
(* holds two scripts with the same pipeline, mqtt2exist.py and             *)
(* mqtt2exit.py; the variable `script` says which of them is running.      *)
(*                                                                         *)
(* Encoding of Python values:                                              *)
(*   None             [t |-> "None"]                                       *)
(*   int/float        [t |-> "num", i |-> integer part, f |-> hundredths]  *)
(*   str              [t |-> "str", s |-> sequence of one-character strings]*)
(*   bool             [t |-> "bool", b |-> BOOLEAN]                        *)
(* A key that the JSON object does not carry is [t |-> "absent"]; JSON     *)
(* null is None.  Numbers are non-negative decimals with two fractional    *)
(* digits; weights and fractions are carried in hundredths ("centi").      *)
(***************************************************************************)
EXTENDS Integers, Sequences, FiniteSets, TLC

VARIABLES
    script,       \* which script runs: "mqtt2exist" or "mqtt2exit"
    EXIST_TOKEN,  \* os.getenv("EXIST_TOKEN"): None, "" or a token
    pc,           \* position of main(): start, aborted, connect_failed, loop, crashed
    subscribed,   \* client.subscribe(MQTT_TOPIC) has been called
    outcomes,     \* one entry per on_message invocation: how it ended
    last,         \* what the last on_message invocation did
    posted,       \* POST requests sent to the store since the start
    parseIn,      \* argument of a direct parse_payload call
    parseOut,     \* its result
    dateIn,       \* argument of a direct to_local_date call
    dateOut       \* its result

vars == <<script, EXIST_TOKEN, pc, subscribed, outcomes, last, posted,
          parseIn, parseOut, dateIn, dateOut>>

-----------------------------------------------------------------------------
(* Bounds of the model *)

\* on_message invocations per run
MaxMessages == 3

-----------------------------------------------------------------------------
(* Python values *)

None == [t |-> "None"]
Absent == [t |-> "absent"]
Num(i, f) == [t |-> "num", i |-> i, f |-> f]
Str(s) == [t |-> "str", s |-> s]
Bool(b) == [t |-> "bool", b |-> b]

\* Python truthiness, as `or` and `not` use it
Truthy(v) ==
    CASE v.t = "None" -> FALSE
      [] v.t = "num"  -> v.i # 0 \/ v.f # 0
      [] v.t = "str"  -> Len(v.s) > 0
      [] v.t = "bool" -> v.b
      [] OTHER        -> FALSE

\* a or b
PyOr(a, b) == IF Truthy(a) THEN a ELSE b

Digits == <<"0", "1", "2", "3", "4", "5", "6", "7", "8", "9">>
IsDigit(c) == \E k \in 1..10 : Digits[k] = c
DigitVal(c) == (CHOOSE k \in 1..10 : Digits[k] = c) - 1
AllDigits(s) == \A k \in 1..Len(s) : IsDigit(s[k])

RECURSIVE ToNat(_)
ToNat(s) == IF Len(s) = 0 THEN 0
            ELSE 10 * ToNat(SubSeq(s, 1, Len(s) - 1)) + DigitVal(s[Len(s)])

UpperCase == <<"A","B","C","D","E","F","G","H","I","J","K","L","M",
               "N","O","P","Q","R","S","T","U","V","W","X","Y","Z">>
LowerCase == <<"a","b","c","d","e","f","g","h","i","j","k","l","m",
               "n","o","p","q","r","s","t","u","v","w","x","y","z">>
LowerChar(c) == IF \E k \in 1..26 : UpperCase[k] = c
                THEN LowerCase[CHOOSE k \in 1..26 : UpperCase[k] = c]
                ELSE c
\* str.lower()
Lower(s) == [k \in 1..Len(s) |-> LowerChar(s[k])]

\* Results of operations that may raise: [exc |-> "" or the exception class, ...]
Raise(e) == [exc |-> e]

\* Position of "." in a string, 0 when there is none
DotAt(s) == IF \E k \in 1..Len(s) : s[k] = "."
            THEN CHOOSE k \in 1..Len(s) : s[k] = "." ELSE 0

\* float(v), in hundredths.  A str is accepted when it is a plain decimal with
\* at most two fractional digits, the only numeric strings the model feeds in.
PyFloat(v) ==
    CASE v.t = "num"  -> [exc |-> "", c |-> 100 * v.i + v.f]
      [] v.t = "bool" -> [exc |-> "", c |-> IF v.b THEN 100 ELSE 0]
      [] v.t = "str"  ->
           LET s == v.s
               d == DotAt(s)
               ip == IF d = 0 THEN s ELSE SubSeq(s, 1, d - 1)
               fp == IF d = 0 THEN <<>> ELSE SubSeq(s, d + 1, Len(s))
           IN IF Len(ip) > 0 /\ AllDigits(ip) /\ AllDigits(fp) /\ Len(fp) <= 2
                 /\ (d = 0 \/ Len(fp) > 0)
              THEN [exc |-> "",
                    c |-> 100 * ToNat(ip)
                          + (IF Len(fp) = 1 THEN 10 * ToNat(fp) ELSE ToNat(fp))]
              ELSE Raise("ValueError")
      [] OTHER        -> Raise("TypeError")

\* round(x / 10^k) to the nearest integer, ties to even (x >= 0)
RoundDiv(x, m) ==
    LET q == x \div m
        r == x % m
    IN IF 2 * r > m \/ (2 * r = m /\ q % 2 = 1) THEN q + 1 ELSE q

\* A float carried exactly: hi * 10^4 + lo, in units of 10^-10 (0 <= lo < 10^4),
\* so that the products stay in 32 bits.
Exact(c) == [hi |-> c * 10000, lo |-> 0]

\* float(lb) * 0.45359237, for lb given in hundredths: c * 45359237 * 10^-10
LbFactorHigh == 4535
LbFactorLow == 9237
lb_to_kg(c) ==
    LET b == c * LbFactorLow
    IN [hi |-> c * LbFactorHigh + (b \div 10000), lo |-> b % 10000]

\* round(x, 2) of an exact value, in hundredths (ties to even).  Python rounds
\* the binary float nearest to x; the two agree away from the ties, and the
\* inputs of the model stay away from them.
Round2(x) ==
    LET q == x.hi \div 10000
        r == (x.hi % 10000) * 10000 + x.lo
    IN IF 2 * r > 100000000 \/ (2 * r = 100000000 /\ q % 2 = 1) THEN q + 1 ELSE q

-----------------------------------------------------------------------------
(* datetime and zoneinfo, as to_local_date uses them *)

\* LOCAL_TZ, the default of mqtt2exist.py and the fixed value of mqtt2exit.py
LOCAL_TZ == "America/Toronto"

\* Days from 1970-01-01 to y-m-d in the proleptic Gregorian calendar
days_from_civil(y, m, d) ==
    LET yy == IF m <= 2 THEN y - 1 ELSE y
        era == yy \div 400
        yoe == yy - era * 400
        mp == IF m > 2 THEN m - 3 ELSE m + 9
        doy == (153 * mp + 2) \div 5 + d - 1
        doe == yoe * 365 + yoe \div 4 - yoe \div 100 + doy
    IN era * 146097 + doe - 719468

\* The date [y, m, d] of a day number
civil_from_days(z0) ==
    LET z == z0 + 719468
        era == z \div 146097
        doe == z - era * 146097
        yoe == (doe - doe \div 1460 + doe \div 36524 - doe \div 146096) \div 365
        doy == doe - (365 * yoe + yoe \div 4 - yoe \div 100)
        mp == (5 * doy + 2) \div 153
        d == doy - (153 * mp + 2) \div 5 + 1
        m == IF mp < 10 THEN mp + 3 ELSE mp - 9
        y == yoe + era * 400 + (IF m <= 2 THEN 1 ELSE 0)
    IN [y |-> y, m |-> m, d |-> d]

IsLeap(y) == y % 4 = 0 /\ (y % 100 # 0 \/ y % 400 = 0)
DaysInMonth(y, m) ==
    IF m = 2 THEN (IF IsLeap(y) THEN 29 ELSE 28)
    ELSE IF m \in {4, 6, 9, 11} THEN 30 ELSE 31

\* UTC offset (seconds) of America/Toronto at a UTC instant (epoch seconds).
\* Daylight time of 2025 runs from 2025-03-09T07:00Z to 2025-11-02T06:00Z; the
\* instants the model feeds in lie in 2025 or in the winter of 1969/70.
DstStart2025 == 1741503600
DstEnd2025 == 1762063200
UtcOffset(t) == IF DstStart2025 <= t /\ t < DstEnd2025 THEN -14400 ELSE -18000

Pad2(n) == <<Digits[((n \div 10) % 10) + 1], Digits[(n % 10) + 1]>>
Pad4(n) == Pad2(n \div 100) \o Pad2(n % 100)
\* strftime("%Y-%m-%d")
strftime(dt) == Pad4(dt.y) \o <<"-">> \o Pad2(dt.m) \o <<"-">> \o Pad2(dt.d)

\* datetime.fromtimestamp(t, tz): the local date of an instant
fromtimestamp(t) == civil_from_days((t + UtcOffset(t)) \div 86400)

\* datetime.fromisoformat, for the grammar every supported Python accepts:
\*   YYYY-MM-DD [ sep HH:MM [ :SS ] [ (+|-)HH:MM ] ]
\* Result: [exc, y, m, d, sec (seconds into the day), aware, off (seconds)]
TimeFields(hh, mm, ss, aware, sg, oh, om) ==
    IF hh > 23 \/ mm > 59 \/ ss > 59 \/ oh > 23 \/ om > 59
    THEN Raise("ValueError")
    ELSE [exc |-> "", sec |-> hh * 3600 + mm * 60 + ss,
          aware |-> aware, off |-> sg * (oh * 3600 + om * 60)]

TimeShapeOk(s, n, hasSec, rest) ==
    /\ n >= 5
    /\ IsDigit(s[1]) /\ IsDigit(s[2]) /\ s[3] = ":"
    /\ IsDigit(s[4]) /\ IsDigit(s[5])
    /\ (hasSec => IsDigit(s[7]) /\ IsDigit(s[8]))
    /\ \/ Len(rest) = 0
       \/ /\ Len(rest) = 6
          /\ rest[1] \in {"+", "-"}
          /\ IsDigit(rest[2]) /\ IsDigit(rest[3]) /\ rest[4] = ":"
          /\ IsDigit(rest[5]) /\ IsDigit(rest[6])

ParseTimeParts(s, n, hasSec, rest) ==
    IF ~TimeShapeOk(s, n, hasSec, rest) THEN Raise("ValueError")
    ELSE TimeFields(ToNat(SubSeq(s, 1, 2)), ToNat(SubSeq(s, 4, 5)),
                    IF hasSec THEN ToNat(SubSeq(s, 7, 8)) ELSE 0,
                    Len(rest) = 6,
                    IF Len(rest) = 6 /\ rest[1] = "-" THEN -1 ELSE 1,
                    IF Len(rest) = 6 THEN ToNat(SubSeq(rest, 2, 3)) ELSE 0,
                    IF Len(rest) = 6 THEN ToNat(SubSeq(rest, 5, 6)) ELSE 0)

\* The time of day and the offset: s is what follows the separator
ParseTime(s) ==
    IF Len(s) >= 8 /\ s[6] = ":"
    THEN ParseTimeParts(s, Len(s), TRUE, SubSeq(s, 9, Len(s)))
    ELSE ParseTimeParts(s, Len(s), FALSE,
                        IF Len(s) >= 5 THEN SubSeq(s, 6, Len(s)) ELSE <<>>)

DateShapeOk(s) ==
    /\ Len(s) >= 10
    /\ AllDigits(SubSeq(s, 1, 4)) /\ s[5] = "-"
    /\ AllDigits(SubSeq(s, 6, 7)) /\ s[8] = "-"
    /\ AllDigits(SubSeq(s, 9, 10))

DateTimeFields(y, m, d, tm) ==
    IF y < 1 \/ m < 1 \/ m > 12 \/ d < 1 THEN Raise("ValueError")
    ELSE IF d > DaysInMonth(y, m) THEN Raise("ValueError")
    ELSE IF tm.exc # "" THEN tm
    ELSE [exc |-> "", y |-> y, m |-> m, d |-> d, sec |-> tm.sec,
          aware |-> tm.aware, off |-> tm.off]

fromisoformat(s) ==
    IF ~DateShapeOk(s) THEN Raise("ValueError")
    ELSE DateTimeFields(
           ToNat(SubSeq(s, 1, 4)), ToNat(SubSeq(s, 6, 7)), ToNat(SubSeq(s, 9, 10)),
           IF Len(s) = 10
           THEN [exc |-> "", sec |-> 0, aware |-> FALSE, off |-> 0]
           ELSE IF Len(s) = 11 THEN Raise("ValueError")
           ELSE ParseTime(SubSeq(s, 12, Len(s))))

\* dt.astimezone(tz).  A naive dt was given tzinfo=tz just before (line 96), and
\* astimezone returns a datetime whose tzinfo already is tz as it stands; an
\* aware one is taken to its UTC instant and from there to local time.
astimezone(dt) ==
    IF ~dt.aware THEN [y |-> dt.y, m |-> dt.m, d |-> dt.d]
    ELSE fromtimestamp(days_from_civil(dt.y, dt.m, dt.d) * 86400 + dt.sec - dt.off)

\* NormalizeOffset looking for the sign one character too far to the left
NormalizeOffsetOffByOne(s) ==
    LET n == Len(s)
    IN IF n >= 6 /\ s[n - 5] \in {"+", "-"} /\ s[n - 2] # ":"
       THEN SubSeq(s, 1, n - 2) \o <<":">> \o SubSeq(s, n - 1, n)
       ELSE s

\* Lines 89-92: the colon put into an offset written without one
NormalizeOffset(s) ==
    LET n == Len(s)
    IN IF n >= 5 /\ s[n - 4] \in {"+", "-"} /\ s[n - 2] # ":"
       THEN SubSeq(s, 1, n - 2) \o <<":">> \o SubSeq(s, n - 1, n)
       ELSE s

\* str(date_like) of a value that is neither None nor a number
PyStr(v) == IF v.t = "str" THEN v.s ELSE <<"?">>

\* Lines 94-98: parse, give a naive datetime the local zone, format
ResolveParsed(s, dt) ==
    IF dt.exc # "" THEN [exc |-> dt.exc, date |-> <<>>, parsed |-> s]
    ELSE [exc |-> "", date |-> strftime(astimezone(dt)), parsed |-> s]

ResolveString(s) == ResolveParsed(s, fromisoformat(s))

\* to_local_date(date_like), at clock reading `now` (epoch seconds).
\* Result: [exc, date (string), parsed (the string handed to fromisoformat)]
to_local_date(date_like, now) ==
    IF date_like.t = "None"
    THEN [exc |-> "", date |-> strftime(fromtimestamp(now)), parsed |-> <<>>]
    ELSE IF date_like.t \in {"num", "bool"}
    THEN [exc |-> "",
          date |-> strftime(fromtimestamp(
                     IF date_like.t = "bool" THEN (IF date_like.b THEN 1 ELSE 0)
                     ELSE date_like.i)),
          parsed |-> <<>>]
    ELSE ResolveString(NormalizeOffset(PyStr(date_like)))

-----------------------------------------------------------------------------
(* The payload normalizer *)

Keys == {"date", "timestamp", "ts", "weight", "weight_kg", "unit", "fat"}

\* A raw payload, by what json.loads makes of it:
\*   malformed  not JSON (json.loads raises)
\*   nonobject  JSON that is no object (a list, a number, a string, null)
\*   object     a JSON object, d its keys' values (Absent for a missing key)
Malformed == [kind |-> "malformed"]
NonObject == [kind |-> "nonobject"]
Object(d) == [kind |-> "object", d |-> d]

\* d.get(k) and d.get(k, default)
Get(d, k) == IF d[k].t = "absent" THEN None ELSE d[k]
GetDefault(d, k, default) == IF d[k].t = "absent" THEN default ELSE d[k]

\* The value parse_payload hands to to_local_date (lines 121-123):
\*   d.get("date") or d.get("timestamp") or d.get("ts")
DateLike(d) == PyOr(PyOr(Get(d, "date"), Get(d, "timestamp")), Get(d, "ts"))

kg == <<"k", "g">>

\* UnitOf without the .lower()
UnitOfNoLower(d) ==
    LET u == PyOr(Get(d, "unit"), Str(kg))
    IN IF u.t = "str" THEN [exc |-> "", s |-> u.s]
       ELSE Raise("AttributeError")

\* (d.get("unit") or "kg").lower(): [exc, s]
UnitOf(d) ==
    LET u == PyOr(Get(d, "unit"), Str(kg))
    IN IF u.t = "str" THEN [exc |-> "", s |-> Lower(u.s)]
       ELSE Raise("AttributeError")

\* Lines 130-134 (mqtt2exist.py), 64-65 (mqtt2exit.py): the weight in kilograms
\* before rounding, [exc, x]
WeightKg(unit, weight) ==
    LET w == PyFloat(weight)
    IN IF w.exc # "" THEN w
       ELSE IF unit = kg THEN [exc |-> "", x |-> Exact(w.c)]
       ELSE [exc |-> "", x |-> lb_to_kg(w.c)]

NoFat == [t |-> "None"]
Frac(c) == [t |-> "float", c |-> c]

\* mqtt2exist.py lines 137-143: [exc, fat]
FatFractionExist(d) ==
    LET fat_pct_val == Get(d, "fat")
    IN IF fat_pct_val.t # "None"
       THEN LET f == PyFloat(fat_pct_val)
            IN IF f.exc # "" THEN f
               ELSE [exc |-> "", fat |-> Frac(RoundDiv(f.c, 100))]
       ELSE [exc |-> "", fat |-> NoFat]

\* mqtt2exit.py lines 67-71: the division comes before the test for None, and
\* `/` is defined for numbers (and bool) only
FatFractionExit(d) ==
    LET fat_pct == Get(d, "fat")
    IN IF fat_pct.t \in {"num", "bool"}
       THEN [exc |-> "", fat |-> Frac(RoundDiv(PyFloat(fat_pct).c, 100))]
       ELSE Raise("TypeError")

FatFraction(s, d) ==
    IF s = "mqtt2exist" THEN FatFractionExist(d) ELSE FatFractionExit(d)

Failed(e, date_like) ==
    [exc |-> e, date_like |-> date_like, date_str |-> <<>>, weight_kg |-> 0,
     fat_fraction |-> NoFat]

\* Lines 136-145: the fat, then the record
ParseFat(date_like, date_str, weight_kg, ff) ==
    IF ff.exc # "" THEN Failed(ff.exc, date_like)
    ELSE [exc |-> "", date_like |-> date_like, date_str |-> date_str,
          weight_kg |-> Round2(weight_kg), fat_fraction |-> ff.fat]

ParseConverted(s, d, date_like, date_str, wk) ==
    IF wk.exc # "" THEN Failed(wk.exc, date_like)
    ELSE ParseFat(date_like, date_str, wk.x, FatFraction(s, d))

ParseUnit(s, d, date_like, date_str, weight, unit) ==
    IF unit.exc # "" THEN Failed(unit.exc, date_like)
    ELSE ParseConverted(s, d, date_like, date_str, WeightKg(unit.s, weight))

\* ParseWeight taking a missing weight for 0 instead of raising
ParseWeightDefaultsToZero(s, d, date_like, date_str, weight) ==
    ParseUnit(s, d, date_like, date_str,
              IF weight.t = "None" THEN Num(0, 0) ELSE weight, UnitOf(d))

\* Lines 125-134: the weight, the unit
ParseWeight(s, d, date_like, date_str, weight) ==
    IF weight.t = "None" THEN Failed("ValueError: missing weight", date_like)
    ELSE ParseUnit(s, d, date_like, date_str, weight, UnitOf(d))

ParseDated(s, d, date_like, dr) ==
    IF dr.exc # "" THEN Failed(dr.exc, date_like)
    ELSE ParseWeight(s, d, date_like, dr.date,
                     GetDefault(d, "weight_kg", Get(d, "weight")))

\* Lines 120-123: the date
ParseObject(s, d, date_like, now) ==
    ParseDated(s, d, date_like, to_local_date(date_like, now))

\* parse_payload(payload) of script s at clock reading now.
\* Result: [exc, date_like, date_str, weight_kg (hundredths), fat_fraction]
parse_payload(s, payload, now) ==
    IF payload.kind = "malformed" THEN Failed("JSONDecodeError", Absent)
    ELSE IF payload.kind = "nonobject" THEN Failed("AttributeError", Absent)
    ELSE ParseObject(s, payload.d, DateLike(payload.d), now)

-----------------------------------------------------------------------------
(* The update mapper and the attribute store client *)

ATTR_WEIGHT == "weight"
ATTR_FAT == "body_fat"

\* Updates with the fat update put first
UpdatesFatFirst(rec) ==
    (IF rec.fat_fraction.t # "None"
     THEN <<[name |-> ATTR_FAT, date |-> rec.date_str,
             value |-> rec.fat_fraction.c]>>
     ELSE <<>>)
    \o <<[name |-> ATTR_WEIGHT, date |-> rec.date_str, value |-> rec.weight_kg]>>

\* Lines 152-157: the updates post_exist builds
Updates(rec) ==
    <<[name |-> ATTR_WEIGHT, date |-> rec.date_str, value |-> rec.weight_kg]>>
    \o (IF rec.fat_fraction.t # "None"
        THEN <<[name |-> ATTR_FAT, date |-> rec.date_str,
                value |-> rec.fat_fraction.c]>>
        ELSE <<>>)

\* What requests.post comes back with: a response (status, whether its body is
\* JSON), or no response at all (a timeout or a connection error is raised)
Responses ==
    [kind : {"response"}, status : {200, 202, 500}, json : BOOLEAN]
    \cup {[kind |-> "raised", status |-> 0, json |-> FALSE]}
NoResponse == [kind |-> "none", status |-> 0, json |-> FALSE]

\* not EXIST_TOKEN
TokenMissing(token) == ~Truthy(token)

\* Status codes post_exist takes for success (line 171)
SuccessStatus(status) == status \in {200, 202}

\* r.json() after a success: mqtt2exist.py catches its failure and logs the
\* text instead (lines 174-177); mqtt2exit.py lets it propagate (line 87)
LogResponse(s, resp) ==
    IF resp.json THEN [exc |-> "", log |-> <<"INFO Exist response">>]
    ELSE IF s = "mqtt2exist"
         THEN [exc |-> "", log |-> <<"INFO Exist response (non-JSON)">>]
         ELSE [exc |-> "JSONDecodeError", log |-> <<>>]

\* PostAnswered sending the request once more after a non-success status
PostAnsweredRetrying(s, updates, resp, posting) ==
    IF resp.kind = "raised"
    THEN [exc |-> "ConnectionError", posts |-> <<updates>>,
          resp |-> resp, log |-> posting]
    ELSE IF ~SuccessStatus(resp.status)
    THEN [exc |-> "RuntimeError: Exist update failed",
          posts |-> <<updates, updates>>, resp |-> resp, log |-> posting]
    ELSE [exc |-> LogResponse(s, resp).exc, posts |-> <<updates>>, resp |-> resp,
          log |-> posting \o LogResponse(s, resp).log]

\* Lines 171-177: what post_exist makes of the store's answer
PostAnswered(s, updates, resp, posting) ==
    IF resp.kind = "raised"
    THEN [exc |-> "ConnectionError", posts |-> <<updates>>,
          resp |-> resp, log |-> posting]
    ELSE IF ~SuccessStatus(resp.status)
    THEN [exc |-> "RuntimeError: Exist update failed",
          posts |-> <<updates>>, resp |-> resp, log |-> posting]
    ELSE [exc |-> LogResponse(s, resp).exc, posts |-> <<updates>>, resp |-> resp,
          log |-> posting \o LogResponse(s, resp).log]

\* post_exist(date_str, weight_kg, fat_fraction), the store answering resp.
\* Result: [exc, posts (the bodies POSTed), resp (the answer, if one was asked
\* for), log]
post_exist(s, token, rec, resp) ==
    IF TokenMissing(token)
    THEN [exc |-> "RuntimeError: EXIST_TOKEN is not set", posts |-> <<>>,
          resp |-> NoResponse, log |-> <<>>]
    ELSE PostAnswered(s, Updates(rec), resp,
                      IF s = "mqtt2exist" THEN <<"INFO Posting to Exist.io">>
                      ELSE <<>>)

-----------------------------------------------------------------------------
(* The pipeline controller *)

\* A handler that catches the parse errors only (except ValueError)
CaughtValueErrorsOnly(e) ==
    e \in {"ValueError", "ValueError: missing weight", "JSONDecodeError"}

\* The classes `except Exception` catches: every exception the pipeline raises
\* derives from Exception
CaughtByHandler(e) == TRUE

\* The try block of on_message: parse, then post
TryBlock(s, token, rec, resp) ==
    IF rec.exc = "" THEN post_exist(s, token, rec, resp)
    ELSE [exc |-> rec.exc, posts |-> <<>>, resp |-> NoResponse, log |-> <<>>]

Handled(s, payload, rec, po) ==
    [payload |-> payload, parsed |-> rec, posts |-> po.posts,
     resp |-> po.resp,
     log |-> <<"INFO MQTT message">>
             \o (IF rec.exc = "" /\ s = "mqtt2exist"
                 THEN <<"INFO Parsed payload">> ELSE <<>>)
             \o po.log
             \o (IF po.exc # "" /\ CaughtByHandler(po.exc)
                 THEN <<"ERROR Processing failed">> ELSE <<>>),
     exc |-> po.exc,
     escaped |-> po.exc # "" /\ ~CaughtByHandler(po.exc)]

Parsed(s, token, payload, resp, rec) ==
    Handled(s, payload, rec, TryBlock(s, token, rec, resp))

\* on_message(client, userdata, msg): the whole handler.
\* Result: [payload, parsed, posts, resp, log, exc (what the try block raised),
\*          escaped (the exception left the handler)]
on_message(s, token, payload, resp, now) ==
    Parsed(s, token, payload, resp, parse_payload(s, payload, now))

-----------------------------------------------------------------------------
(* Inputs *)

Scripts == {"mqtt2exist", "mqtt2exit"}

\* EXIST_TOKEN as the environment may leave it: unset, empty, set
Tokens == {None, Str(<<>>), Str(<<"t", "o", "k">>)}

\* Clock readings (epoch seconds): 2025-11-04T12:11Z, and 2025-11-05T03:30Z,
\* when the local date is still 2025-11-04
Clock == {1762258260, 1762313400}

NoKeys == [k \in Keys |-> Absent]

\* Payloads of the messages the broker delivers
MessagePayloads ==
    {Malformed, NonObject}
    \cup {Object([NoKeys EXCEPT !["date"] = a, !["weight"] = w, !["fat"] = f]) :
            a \in {Absent, Str(<<"2", "0", "2", "5", "-", "1", "1", "-", "0", "4", "T", "0", "7", ":", "1", "1", "-", "0", "5", "0", "0">>), Str(<<"y", "e", "s", "t", "e", "r", "d", "a", "y">>)},
            w \in {Absent, Num(84, 75)},
            f \in {Absent, Num(24, 22), Str(<<"2", "4", ".", "2", "2">>), Str(<<"h", "i", "g", "h">>)}}

\* Payloads of the direct parse_payload calls
ParseDates == {Absent, None, Str(<<>>), Str(<<"2", "0", "2", "5", "-", "1", "1", "-", "0", "4", "T", "0", "7", ":", "1", "1", "-", "0", "5", "0", "0">>)}
ParseTimestamps == {Absent, Num(0, 0), Num(1762300000, 0)}
ParseTs == {Absent, Num(0, 0), Num(1762000000, 0)}
ParseWeights == {Absent, None, Num(186, 50), Str(<<"8", "4", ".", "7", "5">>), Str(<<"a", "b", "c">>)}
ParseWeightKgs == {Absent, Num(80, 0)}
ParseUnits == {Absent, None, Str(<<>>), Str(<<"k", "g">>), Str(<<"K", "G">>), Str(<<"K", "g">>),
               Str(<<"l", "b">>), Str(<<"L", "B">>), Str(<<"L", "b">>), Str(<<"g">>), Str(<<"k", "i", "l", "o", "g", "r", "a", "m", "s">>),
               Str(<<"l", "b", "s">>), Num(1, 0)}
ParseFats == {Absent, None, Num(24, 22), Num(0, 0), Str(<<"2", "4", ".", "2", "2">>), Str(<<"h", "i", "g", "h">>)}
ParsePayloads ==
    {Malformed, NonObject}
    \cup {Object([date |-> a, timestamp |-> b, ts |-> c, weight |-> w,
                  weight_kg |-> k, unit |-> u, fat |-> f]) :
            a \in ParseDates, b \in ParseTimestamps, c \in ParseTs,
            w \in ParseWeights, k \in ParseWeightKgs, u \in ParseUnits,
            f \in ParseFats}

\* Date strings of the direct to_local_date calls: a date, then nothing, or a
\* time followed by nothing or by an offset written with or without a colon
IsoDates == {<<"2", "0", "2", "5", "-", "1", "1", "-", "0", "4">>, <<"2", "0", "2", "5", "-", "1", "1", "-", "0", "1">>, <<"2", "0", "2", "5", "-", "0", "3", "-", "0", "9">>, <<"2", "0", "2", "5", "-", "1", "2", "-", "3", "1">>, <<"2", "0", "2", "5", "-", "0", "1", "-", "0", "1">>}
IsoTimes == {<<"T", "0", "7", ":", "1", "1">>, <<"T", "2", "3", ":", "3", "0">>, <<" ", "0", "0", ":", "3", "0", ":", "1", "5">>, <<"T", "0", "2", ":", "3", "0">>}
OffsetSigns == {<<"+">>, <<"-">>}
OffsetHours == {<<"0", "0">>, <<"0", "5">>, <<"0", "9">>}
OffsetMinutes == {<<"0", "0">>, <<"3", "0">>}
ColonOffsets == {sg \o hh \o <<":">> \o mm :
                   sg \in OffsetSigns, hh \in OffsetHours, mm \in OffsetMinutes}
BareOffsets == {sg \o hh \o mm :
                  sg \in OffsetSigns, hh \in OffsetHours, mm \in OffsetMinutes}
NaiveStrings == IsoDates \cup {d \o tm : d \in IsoDates, tm \in IsoTimes}
ColonStrings == {d \o tm \o o : d \in IsoDates, tm \in IsoTimes, o \in ColonOffsets}
BareStrings == {d \o tm \o o : d \in IsoDates, tm \in IsoTimes, o \in BareOffsets}
IsoStrings == NaiveStrings \cup ColonStrings \cup BareStrings
\* Strings that are no ISO-8601 date
OtherStrings == {<<>>, <<"y", "e", "s", "t", "e", "r", "d", "a", "y">>, <<"n", "o", "t", "-", "a", "-", "d", "a", "t", "e">>, <<"2", "0", "2", "5", "-", "1", "3", "-", "4", "0">>, <<"0", "4", "/", "1", "1", "/", "2", "0", "2", "5">>}
DateLikes ==
    {None, Num(0, 0), Num(1762258260, 0), Num(1762313400, 50), Bool(TRUE)}
    \cup {Str(s) : s \in IsoStrings \cup OtherStrings}

-----------------------------------------------------------------------------
(* The bridge: main, on_connect, on_message *)

NotCalled == [exc |-> "not called"]
Unused == "unused"

Init ==
    /\ script \in Scripts
    /\ EXIST_TOKEN \in Tokens
    /\ pc = "start"
    /\ subscribed = FALSE
    /\ outcomes = <<>>
    /\ last = NotCalled
    /\ posted = 0
    /\ parseIn = Unused /\ parseOut = Unused
    /\ dateIn = Unused /\ dateOut = Unused

\* mqtt2exist.py main() checks the token before anything else (lines 210-211);
\* mqtt2exit.py main() does not
MainChecksToken(s) == s = "mqtt2exist"

\* main() up to loop_forever(): the token check, then client.connect, which
\* raises when the broker cannot be reached
Main ==
    /\ pc = "start"
    /\ IF MainChecksToken(script) /\ TokenMissing(EXIST_TOKEN)
       THEN pc' = "aborted"
       ELSE \E reached \in BOOLEAN :
              pc' = IF reached THEN "loop" ELSE "connect_failed"
    /\ UNCHANGED <<script, EXIST_TOKEN, subscribed, outcomes, last, posted,
                   parseIn, parseOut, dateIn, dateOut>>

\* on_connect(client, userdata, flags, rc): subscribes when rc is 0
OnConnect ==
    /\ pc = "loop"
    /\ \E rc \in {0, 5} : subscribed' = IF rc = 0 THEN TRUE ELSE subscribed
    /\ UNCHANGED <<script, EXIST_TOKEN, pc, outcomes, last, posted,
                   parseIn, parseOut, dateIn, dateOut>>

\* How an invocation ended: the exception escaped, normalization failed, the
\* post failed, or all went well
Outcome(r) ==
    IF r.escaped THEN "escaped"
    ELSE IF r.parsed.exc # "" THEN "parse failed"
    ELSE IF r.exc # "" THEN "post failed"
    ELSE "ok"

\* loop_forever() delivers a message of the subscribed topic to on_message; an
\* exception that leaves the callback ends the loop
OnMessage ==
    /\ pc = "loop"
    /\ subscribed
    /\ Len(outcomes) < MaxMessages
    /\ \E payload \in MessagePayloads, resp \in Responses, now \in Clock :
         last' = on_message(script, EXIST_TOKEN, payload, resp, now)
    /\ outcomes' = Append(outcomes, Outcome(last'))
    /\ posted' = posted + Len(last'.posts)
    /\ pc' = IF last'.escaped THEN "crashed" ELSE pc
    /\ UNCHANGED <<script, EXIST_TOKEN, subscribed,
                   parseIn, parseOut, dateIn, dateOut>>

Next == Main \/ OnConnect \/ OnMessage

Spec == Init /\ [][Next]_vars

-----------------------------------------------------------------------------
(* parse_payload called directly *)

InitParse ==
    /\ script \in Scripts
    /\ EXIST_TOKEN = None
    /\ pc = "start"
    /\ subscribed = FALSE
    /\ outcomes = <<>>
    /\ last = NotCalled
    /\ posted = 0
    /\ parseIn \in [payload : ParsePayloads, now : Clock]
    /\ parseOut = NotCalled
    /\ dateIn = Unused /\ dateOut = Unused

CallParse ==
    /\ parseOut = NotCalled
    /\ parseOut' = parse_payload(script, parseIn.payload, parseIn.now)
    /\ UNCHANGED <<script, EXIST_TOKEN, pc, subscribed, outcomes, last, posted,
                   parseIn, dateIn, dateOut>>

SpecParse == InitParse /\ [][CallParse]_vars

-----------------------------------------------------------------------------
(* to_local_date called directly *)

InitDate ==
    /\ script \in Scripts
    /\ EXIST_TOKEN = None
    /\ pc = "start"
    /\ subscribed = FALSE
    /\ outcomes = <<>>
    /\ last = NotCalled
    /\ posted = 0
    /\ parseIn = Unused /\ parseOut = Unused
    /\ dateIn \in [date_like : DateLikes, now : Clock]
    /\ dateOut = NotCalled

CallDate ==
    /\ dateOut = NotCalled
    /\ dateOut' = to_local_date(dateIn.date_like, dateIn.now)
    /\ UNCHANGED <<script, EXIST_TOKEN, pc, subscribed, outcomes, last, posted,
                   parseIn, parseOut, dateIn>>

SpecDate == InitDate /\ [][CallDate]_vars

-----------------------------------------------------------------------------
(* Properties of the bridge (specification Spec) *)

Called == last # NotCalled
FailureLogged(r) == \E k \in 1..Len(r.log) : r.log[k] = "ERROR Processing failed"
IsObject(payload) == payload.kind = "object"
HasKey(d, k) == d[k].t # "absent"
\* The key is there and its value is not null
HasValue(d, k) == d[k].t \notin {"absent", "None"}

\* C1: no error of one message's handling escapes on_message: whichever way the
\* message fails (normalization, a non-success status, no answer), the handler
\* logs the failure and returns, and the loop goes on to deliver the next one.
C1_NoErrorEscapes ==
    /\ pc # "crashed"
    /\ \A k \in 1..Len(outcomes) : outcomes[k] # "escaped"
    /\ Called =>
         /\ ~last.escaped
         /\ pc = "loop"
         /\ last.exc # "" => FailureLogged(last)

\* A message handled well after a rejected one and an unparseable one
C1_Witness ==
    /\ Len(outcomes) = 3
    /\ outcomes[1] = "post failed"
    /\ outcomes[2] = "parse failed"
    /\ outcomes[3] = "ok"
    /\ last.resp.status = 200

\* C2: with no auth token, main stops before it connects: nothing is
\* subscribed, no message is handled, and post_exist is never the one to find
\* the token missing.
C2_NoStartWithoutToken ==
    TokenMissing(EXIST_TOKEN) =>
        /\ pc \in {"start", "aborted"}
        /\ ~subscribed
        /\ outcomes = <<>>
        /\ Called => last.exc # "RuntimeError: EXIST_TOKEN is not set"

\* C3: a payload that does not normalize (not an object, no weight and no
\* weight_kg, or any other parse failure) leads to no POST.
C3_NoPostOnParseFailure ==
    Called =>
        ((\/ ~IsObject(last.payload)
          \/ (~HasKey(last.payload.d, "weight") /\ ~HasKey(last.payload.d, "weight_kg"))
          \/ last.parsed.exc # "")
         => last.posts = <<>> /\ last.resp = NoResponse)

\* An object without a weight, handled by a bridge that holds a token
C3_Witness ==
    /\ Called
    /\ ~TokenMissing(EXIST_TOKEN)
    /\ IsObject(last.payload)
    /\ ~HasKey(last.payload.d, "weight") /\ ~HasKey(last.payload.d, "weight_kg")
    /\ HasKey(last.payload.d, "fat")
    /\ last.exc = "ValueError: missing weight"

\* A payload of the messages that is valid whatever its fat field is
ValidButForFat(d) ==
    /\ d["weight"].t = "num"
    /\ d["date"].t = "absent" \/ (d["date"].t = "str" /\ d["date"].s \in IsoStrings)

\* C4: an otherwise valid payload without `fat` normalizes, with a null
\* fat_fraction, and exactly one update, the weight, is submitted.
C4_FatAbsentOneUpdate ==
    (/\ Called
     /\ IsObject(last.payload)
     /\ ValidButForFat(last.payload.d)
     /\ ~HasKey(last.payload.d, "fat"))
    => /\ last.parsed.exc = ""
       /\ last.parsed.fat_fraction = NoFat
       /\ ~TokenMissing(EXIST_TOKEN) =>
            /\ Len(last.posts) = 1
            /\ Len(last.posts[1]) = 1
            /\ last.posts[1][1].name = ATTR_WEIGHT

C8_AtMostOnce ==
    /\ posted <= Len(outcomes)
    /\ Called =>
         /\ Len(last.posts) <= 1
         /\ \A k \in 1..Len(last.posts) :
              /\ last.parsed.exc = ""
              /\ last.posts[k][1].date = last.parsed.date_str
              /\ last.posts[k][1].value = last.parsed.weight_kg
         /\ (last.resp.kind = "response" /\ last.resp.status \notin {200, 202})
            => Len(last.posts) = 1 /\ FailureLogged(last)

\* A rejected message followed by two more, one POST each at most
C8_Witness ==
    /\ Len(outcomes) = 3
    /\ outcomes[1] = "post failed"
    /\ outcomes[2] = "post failed"
    /\ last.resp.status = 500
    /\ posted = 3

\* C9: for a normalized message the store answered, a failure is logged if
\* and only if the status is neither 200 nor 202, whatever the body.
C9_FailureIffBadStatus ==
    (Called /\ last.resp.kind = "response")
    => (FailureLogged(last) <=> last.resp.status \notin {200, 202})

-----------------------------------------------------------------------------
(* Properties of parse_payload (specification SpecParse) *)

ParseCalled == parseOut # NotCalled
\* The weight parse_payload reads, in hundredths
InputWeight(d) == PyFloat(GetDefault(d, "weight_kg", Get(d, "weight"))).c
lb == <<"l", "b">>

\* C6, as claimed: the weight is converted if and only if `unit` is there and
\* is "lb" in any case; every other unit leaves it as it is.
C6_ConvertIffPound ==
    (ParseCalled /\ parseOut.exc = "")
    => LET d == parseIn.payload.d
       IN parseOut.weight_kg =
            IF d["unit"].t = "str" /\ Lower(d["unit"].s) = lb
            THEN Round2(lb_to_kg(InputWeight(d)))
            ELSE Round2(Exact(InputWeight(d)))

\* C6, amended: the weight is left as it is if and only if `unit` is absent,
\* null, empty or "kg" in any case; every other unit has it converted from
\* pounds.
C6_ConvertUnlessKilogram ==
    (ParseCalled /\ parseOut.exc = "")
    => LET d == parseIn.payload.d
       IN parseOut.weight_kg =
            IF d["unit"].t = "str" /\ Len(d["unit"].s) > 0 /\ Lower(d["unit"].s) # kg
            THEN Round2(lb_to_kg(InputWeight(d)))
            ELSE Round2(Exact(InputWeight(d)))

\* 186.5 with unit "g" comes out as 84.59
C6_Witness ==
    /\ ParseCalled
    /\ parseOut.exc = ""
    /\ parseIn.payload.d["unit"] = Str(<<"g">>)
    /\ ~HasKey(parseIn.payload.d, "weight_kg")
    /\ parseIn.payload.d["weight"] = Num(186, 50)
    /\ parseOut.weight_kg = 8459

\* The first of date, timestamp, ts that is there (and not null), else None
FirstPresent(d) ==
    IF HasValue(d, "date") THEN d["date"]
    ELSE IF HasValue(d, "timestamp") THEN d["timestamp"]
    ELSE IF HasValue(d, "ts") THEN d["ts"]
    ELSE None

\* C7: what is handed to to_local_date is the value of the first of date,
\* timestamp, ts that the payload carries, be it 0 or "", and None only when
\* it carries none of them.
C7_FirstPresentDate ==
    (ParseCalled /\ IsObject(parseIn.payload) /\ parseOut.exc = "")
    => parseOut.date_like = FirstPresent(parseIn.payload.d)

-----------------------------------------------------------------------------
(* Properties of to_local_date (specification SpecDate) *)

DateCalled == dateOut # NotCalled
EndsInBareOffset(s) ==
    /\ Len(s) >= 5
    /\ s[Len(s) - 4] \in {"+", "-"}
    /\ AllDigits(SubSeq(s, Len(s) - 3, Len(s)))
WithColon(s) == SubSeq(s, 1, Len(s) - 2) \o <<":">> \o SubSeq(s, Len(s) - 1, Len(s))

\* C10: of the ISO-8601 strings, only one that ends in a signed four-digit
\* offset without a colon is rewritten (the colon is put in); the others reach
\* the parser as they are.  A string without an offset, date-only included, is
\* accepted and resolves to its own date.  An offset resolves to the same date
\* with and without its colon.
C10_OffsetNormalization ==
    (DateCalled /\ dateIn.date_like.t = "str" /\ dateIn.date_like.s \in IsoStrings)
    => LET s == dateIn.date_like.s
       IN /\ dateOut.exc = ""
          /\ dateOut.parsed = IF EndsInBareOffset(s) THEN WithColon(s) ELSE s
          /\ s \in NaiveStrings => dateOut.date = SubSeq(s, 1, 10)
          /\ s \in BareStrings =>
               /\ WithColon(s) \in ColonStrings
               /\ dateOut.date = to_local_date(Str(WithColon(s)), dateIn.now).date
               /\ to_local_date(Str(WithColon(s)), dateIn.now).exc = ""

\* 2025-11-01 00:30:15 +0900 is the evening of 2025-10-31 in Toronto
C10_Witness ==
    /\ DateCalled
    /\ dateIn.date_like = Str(<<"2","0","2","5","-","1","1","-","0","1"," ",
                               "0","0",":","3","0",":","1","5","+","0","9","0","0">>)
    /\ dateOut.exc = ""
    /\ dateOut.date = <<"2","0","2","5","-","1","0","-","3","1">>

=============================================================================
